---- MODULE Spec2Model ----
(***************************************************************************)
(* Product catalog read API of LowestPrice-BE: the repository layer's      *)
(* query composition (product.repository.ts) and the controller's query    *)
(* parameter handling (product.controller.ts), over a relational store of  *)
(* Category and Product rows joined by ProductCategory.                    *)
(*                                                                         *)
(* A behaviour is one request against one store: Init draws the store and  *)
(* the pending request, the handler's action produces the response.  The   *)
(* userId argument is carried by every handler and read by none of the     *)
(* queries, so it is left out of the request.                              *)
(***************************************************************************)
EXTENDS Integers, Sequences, FiniteSets, TLC

VARIABLES categories, products, request, response

vars == <<categories, products, request, response>>

(***************************************************************************)
(* Bounds.                                                                 *)
(***************************************************************************)
\* Product rows in the store of the repository-level specification.
MaxProducts == 2

ProductIds == 1..MaxProducts

\* Product rows of each kind in the store of the top-10 specification.
MaxPerKind == 4

\* Characters of the raw lastId query string, and product rows in the store
\* of the controller-level specification.
MaxLastIdLen == 3

MaxCursorProducts == 3

(***************************************************************************)
(* Values.                                                                 *)
(***************************************************************************)
\* A nullable column holds <<>> (null) or <<v>>.
Null == <<>>

\* Category rows of the store, and the names a request may carry: "hats" is
\* the name of no Category row.
StoreCategories == {"shoes", "bags"}

CategoryNames == {"shoes", "hats"}

\* The ProductCategory rows of a product: in "bags" only, or in both.
Memberships == {{"bags"}, {"shoes", "bags"}}

DiscountRates == {Null, <<10>>, <<20>>}

\* take: 10
Take == 10

Prices == {100, 200}

\* JavaScript values as they reach a parameter typed boolean: the run-time
\* value may be undefined, a boolean or a string.
JsUndefined == [t |-> "undefined", b |-> FALSE, s |-> ""]

JsBool(x) == [t |-> "boolean", b |-> x, s |-> ""]

JsString(x) == [t |-> "string", b |-> FALSE, s |-> x]

\* a === b: same type and same value, no coercion.
StrictEquals(a, b) == a.t = b.t /\ a.b = b.b /\ a.s = b.s

FilterTokens == {"discountRate_desc", "price_asc", "price_desc", "price_bogus"}

FlagValues == {JsBool(FALSE), JsBool(TRUE), JsUndefined, JsString("false")}

\* The order in which the store yields rows that the query does not order.
TieOrders == {"asc", "desc"}

(***************************************************************************)
(* The store: Category rows (unique names) and Product rows with their     *)
(* ProductCategory join rows folded in as a set of category names.         *)
(***************************************************************************)
ProductRow(id, cats, rate, oos, price) ==
    [productId |-> id, ProductCategory |-> cats, discountRate |-> rate,
     isOutOfStock |-> oos, currentPrice |-> price]

RowsOver(ids) ==
    UNION { { { ProductRow(i, f[i][1], f[i][2], f[i][3], f[i][4]) : i \in present }
              : f \in [present -> Memberships \X DiscountRates \X BOOLEAN \X Prices] }
            : present \in SUBSET ids }

RECURSIVE RowsById(_)
RowsById(rows) ==
    IF rows = {} THEN <<>>
    ELSE LET first == CHOOSE p \in rows : \A q \in rows : p.productId <= q.productId
         IN  <<first>> \o RowsById(rows \ {first})

SeqToSet(s) == { s[i] : i \in 1..Len(s) }

\* prisma.category.findUnique({ where: { categoryName } })
CategoryFindUnique(categoryName) == categoryName \in categories

NoOrder == [field |-> "none", dir |-> "asc"]

OrderBy(field, dir) == [field |-> field, dir |-> dir]

NoTake == <<>>

SortKey(p, field) ==
    CASE field = "discountRate" -> (IF p.discountRate = Null THEN -1 ELSE p.discountRate[1])
      [] field = "currentPrice" -> p.currentPrice
      [] OTHER -> 0

RowBefore(a, b, orderBy, tie) ==
    LET ka == SortKey(a, orderBy.field)
        kb == SortKey(b, orderBy.field)
    IN  IF ka # kb
        THEN (IF orderBy.dir = "asc" THEN ka < kb ELSE ka > kb)
        ELSE (IF tie = "asc" THEN a.productId < b.productId ELSE a.productId > b.productId)

\* prisma.product.findMany({ where, orderBy, take }), where being given as
\* the set of rows that satisfy it: those rows in the order orderBy asks for
\* (rows equal under orderBy in the store's own order), cut to the first
\* take rows.
ProductFindMany(where, orderBy, take, tie) ==
    LET matched == RowsById(where)
        sorted  == SortSeq(matched, LAMBDA a, b : RowBefore(a, b, orderBy, tie))
    IN  IF take = NoTake \/ Len(sorted) <= take[1] THEN sorted
        ELSE SubSeq(sorted, 1, take[1])

(***************************************************************************)
(* Outcomes of an operation.                                               *)
(***************************************************************************)
NoCursor == [isNull |-> TRUE, nan |-> FALSE, num |-> 0, scale |-> 0]

Outcome(status, rows, queries) ==
    [status |-> status, products |-> rows, queries |-> queries, lastId |-> NoCursor]

Pending == Outcome("pending", <<>>, <<>>)

(***************************************************************************)
(* ProductRepository.                                                      *)
(***************************************************************************)
\* Mutant: if (!isOutOfStock), which an absent flag satisfies too.
getAllProducts_whereConditionFalsy(p, isOutOfStock) ==
    IF isOutOfStock.t = "undefined" \/ StrictEquals(isOutOfStock, JsBool(FALSE))
    THEN p.isOutOfStock = FALSE ELSE TRUE

getAllProducts_whereCondition(p, isOutOfStock) ==
    IF StrictEquals(isOutOfStock, JsBool(FALSE)) THEN p.isOutOfStock = FALSE ELSE TRUE

getAllProducts(isOutOfStock, tie) ==
    Outcome("ok",
            ProductFindMany({ p \in products : getAllProducts_whereCondition(p, isOutOfStock) },
                            NoOrder, NoTake, tie),
            <<"product.findMany">>)

getTop10Products_where(p) ==
    /\ ~(p.discountRate = <<0>>)
    /\ ~(p.discountRate = Null)
    /\ p.isOutOfStock = FALSE

\* Mutant: the query without its take.
getTop10Products_noTake == NoTake

getTop10Products_take == <<Take>>

getTop10Products(tie) ==
    LET found == ProductFindMany({ p \in products : getTop10Products_where(p) },
                                 OrderBy("discountRate", "desc"), getTop10Products_take, tie)
    IN  IF Len(found) = 0
        THEN Outcome("NotFoundProduct", <<>>, <<"product.findMany">>)
        ELSE Outcome("ok", found, <<"product.findMany">>)

\* Mutant: the base condition without its NOT discountRate null clause.
getProductsByCategory_baseConditionKeepsNull(p, categoryName) ==
    \E c \in p.ProductCategory : c = categoryName

getProductsByCategory_baseCondition(p, categoryName) ==
    /\ \E c \in p.ProductCategory : c = categoryName
    /\ ~(p.discountRate = Null)

getProductsByCategory_additionalCondition(isOutOfStock) ==
    IF StrictEquals(isOutOfStock, JsBool(FALSE)) THEN <<FALSE>> ELSE <<>>

getProductsByCategory_whereCondition(p, categoryName, isOutOfStock) ==
    /\ getProductsByCategory_baseCondition(p, categoryName)
    /\ \A i \in DOMAIN getProductsByCategory_additionalCondition(isOutOfStock) :
          p.isOutOfStock = getProductsByCategory_additionalCondition(isOutOfStock)[i]

\* Mutant: the listing without its products.length === 0 check.
getProductsByCategory_noEmptyCheck(categoryName, isOutOfStock, tie) ==
    IF ~CategoryFindUnique(categoryName)
    THEN Outcome("NotFoundCategory", <<>>, <<"category.findUnique">>)
    ELSE Outcome("ok",
                 ProductFindMany(
                     { p \in products : getProductsByCategory_whereCondition(p, categoryName, isOutOfStock) },
                     NoOrder, NoTake, tie),
                 <<"category.findUnique", "product.findMany">>)

getProductsByCategory(categoryName, isOutOfStock, tie) ==
    IF ~CategoryFindUnique(categoryName)
    THEN Outcome("NotFoundCategory", <<>>, <<"category.findUnique">>)
    ELSE LET found == ProductFindMany(
                         { p \in products : getProductsByCategory_whereCondition(p, categoryName, isOutOfStock) },
                         NoOrder, NoTake, tie)
             queries == <<"category.findUnique", "product.findMany">>
         IN  IF Len(found) = 0
             THEN Outcome("NotFoundProduct", <<>>, queries)
             ELSE Outcome("ok", found, queries)

\* Mutant: a switch whose default leaves orderBy empty instead of throwing.
getProductsByCategoryAndFilter_orderByDefaultEmpty(filter) ==
    CASE filter = "discountRate_desc" -> <<OrderBy("discountRate", "desc")>>
      [] filter = "price_asc" -> <<OrderBy("currentPrice", "asc")>>
      [] filter = "price_desc" -> <<OrderBy("currentPrice", "desc")>>
      [] OTHER -> <<NoOrder>>

\* Mutant: the two price tokens with their directions exchanged.
getProductsByCategoryAndFilter_orderBySwapped(filter) ==
    CASE filter = "discountRate_desc" -> <<OrderBy("discountRate", "desc")>>
      [] filter = "price_asc" -> <<OrderBy("currentPrice", "desc")>>
      [] filter = "price_desc" -> <<OrderBy("currentPrice", "asc")>>
      [] OTHER -> <<>>

getProductsByCategoryAndFilter_orderBy(filter) ==
    CASE filter = "discountRate_desc" -> <<OrderBy("discountRate", "desc")>>
      [] filter = "price_asc" -> <<OrderBy("currentPrice", "asc")>>
      [] filter = "price_desc" -> <<OrderBy("currentPrice", "desc")>>
      [] OTHER -> <<>>

getProductsByCategoryAndFilter_baseCondition(p, categoryName) ==
    /\ \E c \in p.ProductCategory : c = categoryName
    /\ ~(p.discountRate = Null)

getProductsByCategoryAndFilter_additionalCondition(isOutOfStock) ==
    IF StrictEquals(isOutOfStock, JsBool(FALSE)) THEN <<FALSE>> ELSE <<>>

getProductsByCategoryAndFilter_whereCondition(p, categoryName, isOutOfStock) ==
    /\ getProductsByCategoryAndFilter_baseCondition(p, categoryName)
    /\ \A i \in DOMAIN getProductsByCategoryAndFilter_additionalCondition(isOutOfStock) :
          p.isOutOfStock = getProductsByCategoryAndFilter_additionalCondition(isOutOfStock)[i]

\* Mutant: the filter switch ahead of the category lookup.
getProductsByCategoryAndFilter_filterFirst(categoryName, filter, isOutOfStock, tie) ==
    IF getProductsByCategoryAndFilter_orderBy(filter) = <<>>
    THEN Outcome("NotFoundCategoryFilter", <<>>, <<>>)
    ELSE IF ~CategoryFindUnique(categoryName)
    THEN Outcome("NotFoundCategory", <<>>, <<"category.findUnique">>)
    ELSE LET found == ProductFindMany(
                         { p \in products : getProductsByCategoryAndFilter_whereCondition(p, categoryName, isOutOfStock) },
                         getProductsByCategoryAndFilter_orderBy(filter)[1], NoTake, tie)
             queries == <<"category.findUnique", "product.findMany">>
         IN  IF Len(found) = 0
             THEN Outcome("NotFoundProduct", <<>>, queries)
             ELSE Outcome("ok", found, queries)

getProductsByCategoryAndFilter(categoryName, filter, isOutOfStock, tie) ==
    IF ~CategoryFindUnique(categoryName)
    THEN Outcome("NotFoundCategory", <<>>, <<"category.findUnique">>)
    ELSE IF getProductsByCategoryAndFilter_orderBy(filter) = <<>>
    THEN Outcome("NotFoundCategoryFilter", <<>>, <<"category.findUnique">>)
    ELSE LET found == ProductFindMany(
                         { p \in products : getProductsByCategoryAndFilter_whereCondition(p, categoryName, isOutOfStock) },
                         getProductsByCategoryAndFilter_orderBy(filter)[1], NoTake, tie)
             queries == <<"category.findUnique", "product.findMany">>
         IN  IF Len(found) = 0
             THEN Outcome("NotFoundProduct", <<>>, queries)
             ELSE Outcome("ok", found, queries)

(***************************************************************************)
(* Requests.                                                               *)
(***************************************************************************)
\* A raw query parameter: absent, or a string given as its characters.
NoParam == [defined |-> FALSE, chars |-> <<>>]

Param(chars) == [defined |-> TRUE, chars |-> chars]

Request(op, categoryName, filter, isOutOfStock) ==
    [op |-> op, categoryName |-> categoryName, filter |-> filter,
     isOutOfStock |-> isOutOfStock, lastIdString |-> NoParam]

RepositoryRequests ==
    { Request("getAllProducts", "", "", f) : f \in FlagValues }
    \cup { Request("getProductsByCategory", c, "", f) : c \in CategoryNames, f \in FlagValues }
    \cup { Request("getProductsByCategoryAndFilter", c, t, f) :
               c \in CategoryNames, t \in FilterTokens, f \in FlagValues }

Init ==
    /\ categories = StoreCategories
    /\ products \in RowsOver(ProductIds)
    /\ request \in RepositoryRequests
    /\ response = Pending

GetAllProducts ==
    /\ response = Pending
    /\ request.op = "getAllProducts"
    /\ \E tie \in TieOrders : response' = getAllProducts(request.isOutOfStock, tie)
    /\ UNCHANGED <<categories, products, request>>

GetProductsByCategory ==
    /\ response = Pending
    /\ request.op = "getProductsByCategory"
    /\ \E tie \in TieOrders :
          response' = getProductsByCategory(request.categoryName, request.isOutOfStock, tie)
    /\ UNCHANGED <<categories, products, request>>

GetProductsByCategoryAndFilter ==
    /\ response = Pending
    /\ request.op = "getProductsByCategoryAndFilter"
    /\ \E tie \in TieOrders :
          response' = getProductsByCategoryAndFilter(request.categoryName, request.filter,
                                                     request.isOutOfStock, tie)
    /\ UNCHANGED <<categories, products, request>>

Next ==
    \/ GetAllProducts
    \/ GetProductsByCategory
    \/ GetProductsByCategoryAndFilter

Spec == Init /\ [][Next]_vars

(***************************************************************************)
(* The top-10 listing, over stores large enough for the cap to cut.        *)
(***************************************************************************)
TopKinds ==
    << <<Null, FALSE>>, <<<<0>>, FALSE>>, <<<<10>>, FALSE>>, <<<<20>>, FALSE>>,
       <<<<30>>, FALSE>>, <<<<20>>, TRUE>> >>

\* count[k] rows of kind k, with distinct identifiers.
TopRows(count) ==
    { ProductRow((j - 1) * Len(TopKinds) + k, {"bags"}, TopKinds[k][1], TopKinds[k][2], 100) :
        <<k, j>> \in { kj \in (DOMAIN TopKinds) \X (1..MaxPerKind) : kj[2] <= count[kj[1]] } }

InitTop ==
    /\ categories = StoreCategories
    /\ \E count \in [DOMAIN TopKinds -> 0..MaxPerKind] : products = TopRows(count)
    /\ request = Request("getTop10Products", "", "", JsUndefined)
    /\ response = Pending

GetTop10Products ==
    /\ response = Pending
    /\ request.op = "getTop10Products"
    /\ \E tie \in TieOrders : response' = getTop10Products(tie)
    /\ UNCHANGED <<categories, products, request>>

NextTop == GetTop10Products

SpecTop == InitTop /\ [][NextTop]_vars

(***************************************************************************)
(* ProductController: the category listings, from the raw query strings.   *)
(***************************************************************************)
Digits == {"0", "1", "2", "3", "4", "5", "6", "7", "8", "9"}

DigitValue(c) ==
    CASE c = "0" -> 0 [] c = "1" -> 1 [] c = "2" -> 2 [] c = "3" -> 3 [] c = "4" -> 4
      [] c = "5" -> 5 [] c = "6" -> 6 [] c = "7" -> 7 [] c = "8" -> 8 [] c = "9" -> 9

\* A JavaScript number value: NaN, or num / 10^scale with no trailing zero in
\* the fraction; null is the cursor's other value.
NaN == [isNull |-> FALSE, nan |-> TRUE, num |-> 0, scale |-> 0]

RECURSIVE Num(_, _)
Num(num, scale) ==
    IF scale > 0 /\ num % 10 = 0 THEN Num(num \div 10, scale - 1)
    ELSE [isNull |-> FALSE, nan |-> FALSE, num |-> num, scale |-> scale]

RECURSIVE Pow10(_)
Pow10(n) == IF n = 0 THEN 1 ELSE 10 * Pow10(n - 1)

RECURSIVE DigitsValue(_)
DigitsValue(ds) ==
    IF ds = <<>> THEN 0 ELSE 10 * DigitsValue(SubSeq(ds, 1, Len(ds) - 1)) + DigitValue(ds[Len(ds)])

RECURSIVE TrimLeft(_)
TrimLeft(cs) == IF cs # <<>> /\ cs[1] = " " THEN TrimLeft(Tail(cs)) ELSE cs

RECURSIVE TrimRight(_)
TrimRight(cs) ==
    IF cs # <<>> /\ cs[Len(cs)] = " " THEN TrimRight(SubSeq(cs, 1, Len(cs) - 1)) ELSE cs

\* Number(s) of a string: white space trimmed; the empty string is 0; an
\* optional sign, then digits with at most one point and at least one
\* digit; anything else is NaN.
StringToNumber(cs) ==
    LET trimmed == TrimRight(TrimLeft(cs))
        signed  == trimmed # <<>> /\ trimmed[1] \in {"-", "+"}
        body    == IF signed THEN Tail(trimmed) ELSE trimmed
        points  == { i \in DOMAIN body : body[i] = "." }
        digits  == SelectSeq(body, LAMBDA c : c \in Digits)
        scale   == IF points = {} THEN 0 ELSE Len(body) - (CHOOSE i \in points : TRUE)
        wellFormed ==
            /\ \A i \in DOMAIN body : body[i] \in Digits \cup {"."}
            /\ Cardinality(points) <= 1
            /\ digits # <<>>
    IN  IF trimmed = <<>> THEN Num(0, 0)
        ELSE IF ~wellFormed THEN NaN
        ELSE IF signed /\ trimmed[1] = "-" THEN Num(0 - DigitsValue(digits), scale)
        ELSE Num(DigitsValue(digits), scale)

\* Number(x) of a query parameter: Number(undefined) is NaN.
Number(param) == IF param.defined THEN StringToNumber(param.chars) ELSE NaN

\* The truthiness of a number: neither NaN nor zero.
Truthy(n) == ~n.nan /\ n.num # 0

\* const lastId = Number(lastIdString) ? Number(lastIdString) : null
getProductsByCategory_lastId(lastIdString) ==
    IF Truthy(Number(lastIdString)) THEN Number(lastIdString) ELSE NoCursor

getProductsByCategoryAndFilter_lastId(lastIdString) ==
    IF Truthy(Number(lastIdString)) THEN Number(lastIdString) ELSE NoCursor

(***************************************************************************)
(* ProductService, between the controller and the repository: the stock    *)
(* flag's string becomes the boolean the repository compares, and the      *)
(* cursor constrains the listing to identifiers strictly after it.         *)
(***************************************************************************)
ServiceStockFlag(isOutOfStock) ==
    IF StrictEquals(isOutOfStock, JsString("false")) THEN JsBool(FALSE) ELSE JsBool(TRUE)

\* Mutant: productId >= lastId.
AfterCursorInclusive(p, lastId) == p.productId * Pow10(lastId.scale) >= lastId.num

\* productId > lastId, for lastId = num / 10^scale.
AfterCursor(p, lastId) == p.productId * Pow10(lastId.scale) > lastId.num

ServiceApplyCursor(out, lastId) ==
    IF out.status # "ok" THEN [out EXCEPT !.lastId = lastId]
    ELSE LET paged == IF lastId.isNull THEN out.products
                      ELSE SelectSeq(out.products, LAMBDA p : AfterCursor(p, lastId))
         IN  IF Len(paged) = 0
             THEN [out EXCEPT !.status = "NotFoundProduct", !.products = <<>>, !.lastId = lastId]
             ELSE [out EXCEPT !.products = paged, !.lastId = lastId]

ServiceGetProductsByCategory(categoryName, lastId, isOutOfStock, tie) ==
    ServiceApplyCursor(getProductsByCategory(categoryName, ServiceStockFlag(isOutOfStock), tie),
                       lastId)

ServiceGetProductsByCategoryAndFilter(categoryName, filter, lastId, isOutOfStock, tie) ==
    ServiceApplyCursor(
        getProductsByCategoryAndFilter(categoryName, filter, ServiceStockFlag(isOutOfStock), tie),
        lastId)

ControllerGetProductsByCategory(categoryName, lastIdString, isOutOfStock, tie) ==
    ServiceGetProductsByCategory(categoryName, getProductsByCategory_lastId(lastIdString),
                                 isOutOfStock, tie)

ControllerGetProductsByCategoryAndFilter(categoryName, filter, lastIdString, isOutOfStock, tie) ==
    ServiceGetProductsByCategoryAndFilter(categoryName, filter,
                                          getProductsByCategoryAndFilter_lastId(lastIdString),
                                          isOutOfStock, tie)

LastIdChars == {"0", "1", "2", ".", "-", "a"}

LastIdStrings ==
    {NoParam} \cup { Param(cs) : cs \in UNION { [1..n -> LastIdChars] : n \in 0..MaxLastIdLen } }

RawFlags == {JsUndefined, JsString("false"), JsString("true")}

ControllerRequests ==
    { [Request("controller.getProductsByCategory", c, "", f) EXCEPT !.lastIdString = l] :
         c \in CategoryNames, f \in RawFlags, l \in LastIdStrings }
    \cup { [Request("controller.getProductsByCategoryAndFilter", c, t, f) EXCEPT !.lastIdString = l] :
               c \in CategoryNames, t \in FilterTokens, f \in RawFlags, l \in LastIdStrings }

\* Rows 1..MaxCursorProducts, any of them present: all in both categories,
\* discounted, the even ones out of stock, dearer as the identifier grows.
CursorRows(present) ==
    { ProductRow(i, {"shoes", "bags"}, <<10>>, i % 2 = 0, 100 * i) : i \in present }

InitController ==
    /\ categories = StoreCategories
    /\ \E present \in SUBSET (1..MaxCursorProducts) : products = CursorRows(present)
    /\ request \in ControllerRequests
    /\ response = Pending

HandleGetProductsByCategory ==
    /\ response = Pending
    /\ request.op = "controller.getProductsByCategory"
    /\ \E tie \in TieOrders :
          response' = ControllerGetProductsByCategory(request.categoryName, request.lastIdString,
                                                      request.isOutOfStock, tie)
    /\ UNCHANGED <<categories, products, request>>

HandleGetProductsByCategoryAndFilter ==
    /\ response = Pending
    /\ request.op = "controller.getProductsByCategoryAndFilter"
    /\ \E tie \in TieOrders :
          response' = ControllerGetProductsByCategoryAndFilter(
                          request.categoryName, request.filter, request.lastIdString,
                          request.isOutOfStock, tie)
    /\ UNCHANGED <<categories, products, request>>

NextController ==
    \/ HandleGetProductsByCategory
    \/ HandleGetProductsByCategoryAndFilter

SpecController == InitController /\ [][NextController]_vars

(***************************************************************************)
(* Properties.                                                             *)
(***************************************************************************)
Done == response.status # "pending"

RecognisedTokens == {"discountRate_desc", "price_asc", "price_desc"}

CategoryListing == request.op \in {"getProductsByCategory", "getProductsByCategoryAndFilter"}

ControllerListing ==
    request.op \in {"controller.getProductsByCategory", "controller.getProductsByCategoryAndFilter"}

StockListing == CategoryListing \/ request.op = "getAllProducts"

Returned == SeqToSet(response.products)

ExplicitlyFalse == request.isOutOfStock.t = "boolean" /\ request.isOutOfStock.b = FALSE

\* A product the listing's predicate admits when its stock status is set aside.
OtherwiseMatching(p) ==
    \/ request.op = "getAllProducts"
    \/ CategoryListing /\ request.categoryName \in p.ProductCategory /\ p.discountRate # Null

MatchesComposed(p) == OtherwiseMatching(p) /\ (ExplicitlyFalse => ~p.isOutOfStock)

Issued(query) == \E i \in DOMAIN response.queries : response.queries[i] = query

\* C1: a category listing for a name that is no Category row fails with
\* NotFoundCategory, whatever the filter token and the stock flag, and no
\* product query has been issued by then.
C1_MissingCategoryFailsFirst ==
    (Done /\ CategoryListing /\ request.categoryName \notin categories)
        => (response.status = "NotFoundCategory" /\ ~Issued("product.findMany"))

C1_Witness ==
    /\ Done /\ request.op = "getProductsByCategoryAndFilter"
    /\ request.categoryName \notin categories
    /\ request.filter \notin RecognisedTokens
    /\ products # {}
    /\ response.status = "NotFoundCategory"

\* C2: the filtered listing of an existing category with a token outside the
\* three recognised ones fails with NotFoundCategoryFilter, whatever the
\* products and the stock flag.
C2_UnknownTokenRejected ==
    (Done /\ request.op = "getProductsByCategoryAndFilter"
          /\ request.categoryName \in categories
          /\ request.filter \notin RecognisedTokens)
        => response.status = "NotFoundCategoryFilter"

C2_Witness ==
    /\ Done /\ request.op = "getProductsByCategoryAndFilter"
    /\ request.categoryName \in categories
    /\ request.filter = "price_bogus"
    /\ \E p \in products : MatchesComposed(p)
    /\ response.status = "NotFoundCategoryFilter"

\* C3: a successful category listing returns no product with a null discount
\* rate and only products of the requested category, for every stock flag.
C3_NoNullDiscountInCategory ==
    (Done /\ CategoryListing /\ response.status = "ok")
        => \A p \in Returned :
              p.discountRate # Null /\ request.categoryName \in p.ProductCategory

C3_Witness ==
    /\ Done /\ CategoryListing /\ response.status = "ok"
    /\ ~ExplicitlyFalse
    /\ \E p \in products : request.categoryName \in p.ProductCategory /\ p.discountRate = Null

\* C4: in the three listings that take the stock flag, a flag that is the
\* boolean false keeps every out-of-stock product out of the result; any
\* other flag (absent, true, a string) leaves every otherwise matching
\* out-of-stock product in it.
C4_StockFlagStrictlyFalse ==
    (Done /\ StockListing /\ response.status \in {"ok", "NotFoundProduct"})
        => /\ ExplicitlyFalse => \A p \in Returned : ~p.isOutOfStock
           /\ ~ExplicitlyFalse =>
                 \A p \in products : (OtherwiseMatching(p) /\ p.isOutOfStock) => p \in Returned

C4_Witness ==
    /\ Done /\ StockListing /\ response.status = "ok"
    /\ request.isOutOfStock = JsString("false")
    /\ \E p \in Returned : p.isOutOfStock
    /\ \E p \in Returned : ~p.isOutOfStock

C4_WitnessFalse ==
    /\ Done /\ StockListing /\ response.status = "ok"
    /\ ExplicitlyFalse
    /\ \E p \in products : OtherwiseMatching(p) /\ p.isOutOfStock

\* C5: a successful top-10 listing has at most 10 products, none with
\* discount rate 0 or null, none out of stock, in descending order of
\* discount rate; with no such product in the store it fails with
\* NotFoundProduct.
C5_TopTen ==
    (Done /\ request.op = "getTop10Products")
        => /\ response.status \in {"ok", "NotFoundProduct"}
           /\ response.status = "ok" <=>
                 \E p \in products :
                    p.discountRate # Null /\ p.discountRate # <<0>> /\ ~p.isOutOfStock
           /\ response.status = "ok" =>
                 /\ Len(response.products) \in 1..10
                 /\ \A p \in Returned :
                       p.discountRate # Null /\ p.discountRate # <<0>> /\ ~p.isOutOfStock
                 /\ \A i, j \in DOMAIN response.products :
                       i < j => response.products[i].discountRate[1]
                                   >= response.products[j].discountRate[1]
           /\ response.status = "NotFoundProduct" => response.products = <<>>

C5_Witness ==
    /\ Done /\ request.op = "getTop10Products" /\ response.status = "ok"
    /\ Len(response.products) = 10
    /\ Cardinality({ p \in products :
                       p.discountRate # Null /\ p.discountRate # <<0>> /\ ~p.isOutOfStock }) > 10
    /\ \E p \in products : p.discountRate = <<0>>
    /\ \E p \in products : p.discountRate = Null
    /\ \E p \in products : p.isOutOfStock
    /\ response.products[1].discountRate # response.products[10].discountRate

\* C6: a category listing (with a recognised token, when filtered) never
\* succeeds with an empty list: when the category exists and no product
\* matches the composed predicate it fails with NotFoundProduct.
C6_EmptyIsNotFoundProduct ==
    (Done /\ CategoryListing /\ request.categoryName \in categories
          /\ (request.op = "getProductsByCategoryAndFilter" => request.filter \in RecognisedTokens))
        => /\ response.status = "ok" => response.products # <<>>
           /\ (\A p \in products : ~MatchesComposed(p)) <=> response.status = "NotFoundProduct"

C6_Witness ==
    /\ Done /\ CategoryListing /\ request.categoryName \in categories
    /\ response.status = "NotFoundProduct"
    /\ \E p \in products : OtherwiseMatching(p)

\* C7: with a cursor present, a successful category listing through the
\* controller holds only products whose identifier is strictly after the
\* cursor; with the cursor absent it holds the repository's whole listing.
C7_StrictlyAfterCursor ==
    (Done /\ ControllerListing /\ response.status = "ok")
        => /\ ~response.lastId.isNull =>
                 \A p \in Returned : p.productId * Pow10(response.lastId.scale) > response.lastId.num
           /\ response.lastId.isNull =>
                 Returned = { p \in products :
                                /\ request.categoryName \in p.ProductCategory
                                /\ p.discountRate # Null
                                /\ request.isOutOfStock = JsString("false") => ~p.isOutOfStock }

C7_Witness ==
    /\ Done /\ ControllerListing /\ response.status = "ok"
    /\ ~response.lastId.isNull
    /\ \E p \in products :
          /\ request.categoryName \in p.ProductCategory
          /\ p.productId * Pow10(response.lastId.scale) = response.lastId.num
    /\ Returned # {}

\* C9: the cursor the controller hands on is the parsed number when the raw
\* lastId string parses to a nonzero number and null in every other case,
\* and is always either null or a nonzero integer.
C9_CursorNullOrNonzeroInteger ==
    (Done /\ ControllerListing)
        => /\ Truthy(Number(request.lastIdString)) => response.lastId = Number(request.lastIdString)
           /\ ~Truthy(Number(request.lastIdString)) => response.lastId.isNull
           /\ \/ response.lastId.isNull
              \/ /\ ~response.lastId.nan
                 /\ response.lastId.scale = 0
                 /\ response.lastId.num # 0

\* C10: with a recognised token the filtered listing is ordered by the
\* token's field and direction, and fails or succeeds as the unfiltered
\* listing of the same category and stock flag does, with the same products.
C10_TokenOrdersOnly ==
    (Done /\ request.op = "getProductsByCategoryAndFilter"
          /\ request.categoryName \in categories
          /\ request.filter \in RecognisedTokens)
        => /\ \A i, j \in DOMAIN response.products :
                 i < j =>
                    LET a == response.products[i]
                        b == response.products[j]
                    IN  CASE request.filter = "discountRate_desc" ->
                                a.discountRate[1] >= b.discountRate[1]
                          [] request.filter = "price_asc" -> a.currentPrice <= b.currentPrice
                          [] request.filter = "price_desc" -> a.currentPrice >= b.currentPrice
           /\ \A tie \in TieOrders :
                 LET plain == getProductsByCategory(request.categoryName,
                                                    request.isOutOfStock, tie)
                 IN  /\ response.status = plain.status
                     /\ Returned = SeqToSet(plain.products)

C10_Witness ==
    /\ Done /\ request.op = "getProductsByCategoryAndFilter" /\ response.status = "ok"
    /\ request.filter = "price_asc"
    /\ Len(response.products) = 2
    /\ response.products[1].currentPrice < response.products[2].currentPrice
    /\ response.products[1].productId > response.products[2].productId
    /\ response.products[1].discountRate[1] < response.products[2].discountRate[1]

====
